---- MODULE Spec2Model ----
(***************************************************************************)
(* The sender side of the DiffCopy file-sync protocol                      *)
(* (pkg/fssync/diffcopy.go): one walk task, a pool of workers and one      *)
(* receive loop, run under an errgroup with a shared context.              *)
(***************************************************************************)
EXTENDS Integers, Sequences, FiniteSets, TLC

\* ---- bounds of the model ----
NumWorkers == 2       \* size of the worker pool (64 in DiffCopy's run)
QueueCap == 1         \* capacity of sendpipeline (128 in DiffCopy)
MaxEntries == 2       \* entries the walker yields at most
MaxFileLen == 2       \* bytes in a file at most
MaxChunk == 2         \* bytes one Read returns at most (len(buf))
MaxRecv == 2          \* packets the peer delivers at most
MaxFaults == 1        \* failures the environment injects at most

\* ---- tasks of the errgroup ----
WalkTask == 0
Workers == 1..NumWorkers
RecvTask == NumWorkers + 1
Tasks == 0..(NumWorkers + 1)

\* ---- error values ----
Nil == "nil"
ErrWalk == "walk error"
ErrInfo == "info error"
ErrBadMsg == "fileinfo without stat info: EBADMSG"
ErrSend == "send failed"
ErrSendStat == "failed to send stat: send failed"
ErrSendLast == "failed to send last stat: send failed"
ErrRecv == "recv failed"
ErrRemote == "error from receiver"
ErrInvalidId == "invalid file id"
ErrRead == "read error"
ErrOpen == "open error"
ErrCanceled == "context canceled"
EOF == "EOF"
Running == "running"

\* errors.Wrapf(err, msg): nil stays nil
Wrapf(err, msg) == IF err = Nil THEN Nil ELSE msg

\* ---- packets ----
NoStat == [path |-> "", regular |-> FALSE, present |-> FALSE]
Packet(t, id, data, stat) == [type |-> t, id |-> id, data |-> data, stat |-> stat]

\* entry k of the tree has path PathOf(k)
PathOf(k) == k + 100

Ids == 0..(MaxEntries - 1)
\* identifiers the peer may name: the assignable ones and one never assigned
ReqIds == 0..MaxEntries

\* file bodies: the empty file and the file 1, 2, ..., MaxFileLen
FileContents == {<<>>, [k \in 1..MaxFileLen |-> k]}

\* fileCanRequestData: no mode-type bit set
\* a test that lets every entry request data
fileCanRequestDataAlways(mode) == TRUE

fileCanRequestData(mode) == mode = "regular"

Modes == {"regular", "dir"}

VARIABLES
  i,            \* walk: next identifier
  files,        \* sender.files: id -> path
  visited,      \* the stats the walker has yielded so far, in order
  wpc, werr, wpkt,
  rpc, rerr, rh, p, nrecv, finsRecv,
  kpc, kerr, kh, kpos, kchunk, ker,
  opened, body,
  sendpipeline, closed,
  mu,           \* syncStream.mu: the tasks past ss.mu.Lock() and not yet unlocked
  ctxDone, gerr, errOnce, ret, runRet,
  stats, dataLog, fins, errs,
  resolved, firstFail,
  faults        \* failures injected so far

vars == <<i, files, visited, wpc, werr, wpkt, rpc, rerr, rh, p, nrecv, finsRecv,
          kpc, kerr, kh, kpos, kchunk, ker, opened, body, sendpipeline, closed,
          mu, ctxDone, gerr, errOnce, ret, runRet, stats, dataLog, fins, errs,
          resolved, firstFail, faults>>

walkVars == <<i, files, visited, wpc, werr, wpkt>>
recvVars == <<rpc, rerr, rh, p, nrecv, finsRecv>>
workVars == <<kpc, kerr, kh, kpos, kchunk, ker, opened, body>>
groupVars == <<ctxDone, gerr, errOnce, ret, runRet, firstFail>>
logVars == <<stats, dataLog, fins, errs>>

NoHandle == [id |-> 0, path |-> 0]
NoPacket == Packet("NONE", 0, <<>>, NoStat)

Init ==
  /\ i = 0 /\ files = [k \in {} |-> 0] /\ visited = <<>>
  /\ wpc = "walk" /\ werr = Nil /\ wpkt = NoPacket
  /\ rpc = "check" /\ rerr = Nil /\ rh = NoHandle /\ p = NoPacket
  /\ nrecv = 0 /\ finsRecv = 0
  /\ kpc = [w \in Workers |-> "range"]
  /\ kerr = [w \in Workers |-> Nil]
  /\ kh = [w \in Workers |-> NoHandle]
  /\ kpos = [w \in Workers |-> 0]
  /\ kchunk = [w \in Workers |-> <<>>]
  /\ ker = [w \in Workers |-> Nil]
  /\ opened = [k \in Ids |-> "no"]
  /\ body = [k \in Ids |-> <<>>]
  /\ sendpipeline = <<>> /\ closed = FALSE
  /\ mu = {}
  /\ ctxDone = FALSE /\ gerr = Nil /\ errOnce = FALSE
  /\ ret = [t \in Tasks |-> Running]
  /\ runRet = Running
  /\ stats = <<>> /\ dataLog = [k \in Ids |-> <<>>] /\ fins = 0 /\ errs = <<>>
  /\ resolved = [k \in ReqIds |-> 0]
  /\ firstFail = Nil
  /\ faults = 0

\* ---- the environment's failures ----
\* an operation of the file system or of the transport ends with e
Fault(e) ==
  /\ e # Nil => faults < MaxFaults
  /\ faults' = IF e # Nil THEN faults + 1 ELSE faults

\* ---- errgroup ----
\* a group that keeps the last error instead of the first
OnceErrKeepsLast(once, cur, err) == err

\* errOnce.Do: the first non-nil error is kept
OnceErr(once, cur, err) == IF once THEN cur ELSE err

\* the wrapper of g.Go: task t returned err
Finish(t, err) ==
  /\ ret' = [ret EXCEPT ![t] = err]
  /\ IF err # Nil
       THEN /\ gerr' = OnceErr(errOnce, gerr, err)
            /\ errOnce' = TRUE
            /\ ctxDone' = TRUE
       ELSE UNCHANGED <<gerr, errOnce, ctxDone>>
  /\ firstFail' = IF err # Nil /\ \A u \in Tasks : ret[u] \in {Running, Nil}
                    THEN err ELSE firstFail
  /\ UNCHANGED runRet

\* g.Wait(): every task has returned
Wait ==
  /\ runRet = Running
  /\ \A t \in Tasks : ret[t] # Running
  /\ runRet' = gerr
  /\ ctxDone' = TRUE
  /\ UNCHANGED <<walkVars, recvVars, workVars, logVars, sendpipeline, closed, mu,
                 gerr, errOnce, ret, firstFail, resolved, faults>>

\* the stream's context (ss.Context()) is cancelled from outside
CancelParent ==
  /\ runRet = Running
  /\ ~ctxDone
  /\ ctxDone' = TRUE
  /\ Fault(ErrCanceled)
  /\ UNCHANGED <<walkVars, recvVars, workVars, logVars, sendpipeline, closed, mu,
                 gerr, errOnce, ret, runRet, firstFail, resolved>>

\* ---- syncStream.SendMsg ----
WantsSend(t) ==
  \/ t = WalkTask /\ wpc \in {"stat", "last", "err"}
  \/ t = RecvTask /\ rpc = "fin"
  \/ t \in Workers /\ kpc[t] \in {"write", "final"}

\* a mutex that lets everybody in
CanLockAlways(holders) == TRUE

\* ss.mu.Lock() is granted when nobody holds the mutex
CanLock(holders) == holders = {}

Lock(t) ==
  /\ WantsSend(t)
  /\ t \notin mu
  /\ CanLock(mu)
  /\ mu' = mu \cup {t}
  /\ UNCHANGED <<walkVars, recvVars, workVars, groupVars, logVars, sendpipeline,
                 closed, resolved, faults>>

\* ---- sender.walk ----
\* a walk that drops the metadata from the packet
StatPacketNoMeta(stat) == Packet("STAT", 0, <<>>, NoStat)

StatPacket(stat) == Packet("STAT", 0, <<>>, stat)
LastStatPacket == Packet("STAT", 0, <<>>, NoStat)

\* a callback that counts the entry before it stores its path
FilesAfterOffByOne(f, id, stat) ==
  IF fileCanRequestData(IF stat.regular THEN "regular" ELSE "dir")
    THEN ((id + 1) :> stat.path) @@ f
    ELSE f

\* a callback that never stores the path
FilesAfterNoInsert(f, id, stat) == f

\* the table after the callback has handled an entry with this stat
FilesAfter(f, id, stat) ==
  IF fileCanRequestData(IF stat.regular THEN "regular" ELSE "dir")
    THEN (id :> stat.path) @@ f
    ELSE f

\* the walker calls back with an entry whose stat is usable
WalkVisit ==
  /\ wpc = "walk"
  /\ Len(visited) < MaxEntries
  /\ \E mode \in Modes :
       LET stat == [path |-> PathOf(Len(visited)), regular |-> (mode = "regular"),
                    present |-> TRUE]
       IN /\ visited' = Append(visited, stat)
          /\ wpkt' = StatPacket(stat)
          /\ files' = FilesAfter(files, i, stat)
  /\ i' = i + 1   \* uint32; MaxEntries keeps it far from wrapping
  /\ wpc' = "stat"
  /\ UNCHANGED <<werr, recvVars, workVars, groupVars, logVars, sendpipeline, closed,
                 mu, resolved, faults>>

\* a callback whose error does not stop the walk
WalkFailGoesOn ==
  /\ wpc = "walk"
  /\ \E e \in {ErrWalk, ErrInfo, ErrBadMsg} : werr' = e /\ Fault(e)
  /\ wpc' = "walk"
  /\ UNCHANGED <<i, files, visited, wpkt, recvVars, workVars, groupVars, logVars,
                 sendpipeline, closed, mu, resolved>>

\* the callback fails: walker error, de.Info() error, or Sys() of another shape
WalkFail ==
  /\ wpc = "walk"
  /\ \E e \in {ErrWalk, ErrInfo, ErrBadMsg} : werr' = e /\ Fault(e)
  /\ wpc' = "err"
  /\ UNCHANGED <<i, files, visited, wpkt, recvVars, workVars, groupVars, logVars,
                 sendpipeline, closed, mu, resolved>>

\* fs.Walk returns nil: no entry is left
WalkEnd ==
  /\ wpc = "walk"
  /\ wpc' = "last"
  /\ wpkt' = LastStatPacket
  /\ UNCHANGED <<i, files, visited, werr, recvVars, workVars, groupVars, logVars,
                 sendpipeline, closed, mu, resolved, faults>>

\* SendMsg(p) at the end of the callback
WalkSendStat ==
  /\ wpc = "stat" /\ WalkTask \in mu
  /\ stats' = Append(stats, wpkt)
  /\ mu' = mu \ {WalkTask}
  /\ \E e \in {Nil, ErrSend} :
       /\ Fault(e)
       /\ werr' = Wrapf(e, ErrSendStat)
       /\ wpc' = IF e = Nil THEN "walk" ELSE "err"
  /\ UNCHANGED <<i, files, visited, wpkt, recvVars, workVars, groupVars, dataLog,
                 fins, errs, sendpipeline, closed, resolved>>

\* the empty STAT after the walk
WalkSendLast ==
  /\ wpc = "last" /\ WalkTask \in mu
  /\ stats' = Append(stats, wpkt)
  /\ mu' = mu \ {WalkTask}
  /\ \E e \in {Nil, ErrSend} :
       /\ Fault(e)
       /\ werr' = Wrapf(e, ErrSendLast)
       /\ wpc' = IF e = Nil THEN "ret" ELSE "err"
  /\ UNCHANGED <<i, files, visited, wpkt, recvVars, workVars, groupVars, dataLog,
                 fins, errs, sendpipeline, closed, resolved>>

\* an ERR packet without the failure text
ErrPacketNoText(err) == Packet("ERR", 0, "", NoStat)

\* &types.Packet{Type: PACKET_ERR, Data: []byte(err.Error())}
ErrPacket(err) == Packet("ERR", 0, err, NoStat)

\* the walk task sends ERR when walk failed; the result of the send is dropped
WalkSendErr ==
  /\ wpc = "err" /\ WalkTask \in mu
  /\ errs' = Append(errs, ErrPacket(werr).data)
  /\ mu' = mu \ {WalkTask}
  /\ \E e \in {Nil, ErrSend} : Fault(e)
  /\ wpc' = "ret"
  /\ UNCHANGED <<i, files, visited, werr, wpkt, recvVars, workVars, groupVars, stats,
                 dataLog, fins, sendpipeline, closed, resolved>>

WalkReturn ==
  /\ wpc = "ret"
  /\ wpc' = "done"
  /\ Finish(WalkTask, werr)
  /\ UNCHANGED <<i, files, visited, werr, wpkt, recvVars, workVars, logVars,
                 sendpipeline, closed, mu, resolved, faults>>

\* ---- sender.run: the receive loop ----
\* what the peer may deliver: REQ for any id, ERR, FIN, or a type the switch ignores
PeerPackets ==
  {Packet("REQ", id, <<>>, NoStat) : id \in ReqIds}
    \cup {Packet(t, 0, <<>>, NoStat) : t \in {"ERR", "FIN", "DATA"}}

\* a receive loop without the deferred close
NoDeferredClose == FALSE

\* defer close(s.sendpipeline): the channel is closed when the loop returns
DeferredClose == TRUE

\* select on ctx.Done() at the top of the loop; close(sendpipeline) is deferred
RecvCheck ==
  /\ rpc = "check"
  /\ IF ctxDone
       THEN /\ rerr' = ErrCanceled
            /\ closed' = DeferredClose
            /\ rpc' = "ret"
       ELSE /\ rpc' = "recv"
            /\ UNCHANGED <<rerr, closed>>
  /\ p' = NoPacket   \* var p types.Packet: a fresh one per iteration
  /\ UNCHANGED <<rh, nrecv, finsRecv, walkVars, workVars, groupVars, logVars,
                 sendpipeline, mu, resolved, faults>>

\* RecvMsg fails
RecvFail ==
  /\ rpc = "recv"
  /\ rerr' = ErrRecv
  /\ Fault(ErrRecv)
  /\ closed' = DeferredClose
  /\ rpc' = "ret"
  /\ UNCHANGED <<rh, p, nrecv, finsRecv, walkVars, workVars, groupVars, logVars,
                 sendpipeline, mu, resolved>>

\* a queue that forgets to delete the id
DeleteNothing(f, id) == f

\* delete(s.files, id)
Delete(f, id) == [k \in (DOMAIN f) \ {id} |-> f[k]]

\* sender.queue up to the channel send: look the id up and delete it, under s.mu
QueueLookup(f, id) ==
  IF id \in DOMAIN f
    THEN [ok |-> TRUE, h |-> [id |-> id, path |-> f[id]], files |-> Delete(f, id)]
    ELSE [ok |-> FALSE, h |-> NoHandle, files |-> f]

\* a switch whose default case falls into the FIN case
SwitchTargetFallthrough(t) ==
  CASE t = "ERR" -> "ret"
    [] t = "REQ" -> "queue"
    [] OTHER -> "fin"

\* switch p.Type: where the loop goes for a packet of type t
SwitchTarget(t) ==
  CASE t = "ERR" -> "ret"
    [] t = "REQ" -> "queue"
    [] t = "FIN" -> "fin"
    [] OTHER -> "check"

\* RecvMsg delivers a packet and the switch handles it
RecvPacket ==
  /\ rpc = "recv"
  /\ nrecv < MaxRecv
  /\ \E pkt \in PeerPackets :
       /\ p' = pkt
       /\ nrecv' = nrecv + 1
       /\ finsRecv' = IF pkt.type = "FIN" THEN finsRecv + 1 ELSE finsRecv
       /\ CASE SwitchTarget(pkt.type) = "ret" ->
                 /\ rerr' = ErrRemote
                 /\ closed' = DeferredClose
                 /\ rpc' = "ret"
                 /\ UNCHANGED <<files, rh, resolved, faults>>
            [] SwitchTarget(pkt.type) = "queue" ->
                 LET q == QueueLookup(files, pkt.id)
                 IN IF q.ok
                      THEN /\ files' = q.files
                           /\ rh' = q.h
                           /\ resolved' = [resolved EXCEPT ![pkt.id] = @ + 1]
                           /\ rpc' = "enqueue"
                           /\ UNCHANGED <<rerr, closed>>
                      ELSE /\ rerr' = ErrInvalidId
                           /\ closed' = DeferredClose
                           /\ rpc' = "ret"
                           /\ UNCHANGED <<files, rh, resolved, faults>>
            [] SwitchTarget(pkt.type) = "fin" ->
                 /\ rpc' = "fin"
                 /\ UNCHANGED <<files, rh, resolved, rerr, closed>>
            [] OTHER ->
                 /\ rpc' = "check"
                 /\ UNCHANGED <<files, rh, resolved, rerr, closed>>
  /\ UNCHANGED <<i, visited, wpc, werr, wpkt, workVars, groupVars, logVars,
                 sendpipeline, mu, faults>>

\* a channel that never makes the sender wait
CanEnqueueAlways(q) == TRUE

\* a send on the buffered channel goes through when the buffer has room
CanEnqueue(q) == Len(q) < QueueCap

\* s.sendpipeline <- &sendHandle{id, p}
RecvEnqueue ==
  /\ rpc = "enqueue"
  /\ CanEnqueue(sendpipeline)
  /\ sendpipeline' = Append(sendpipeline, rh)
  /\ rpc' = "check"
  /\ rh' = NoHandle
  /\ UNCHANGED <<rerr, p, nrecv, finsRecv, walkVars, workVars, groupVars, logVars,
                 closed, mu, resolved, faults>>

\* return s.conn.SendMsg(FIN); then the deferred close
RecvSendFin ==
  /\ rpc = "fin" /\ RecvTask \in mu
  /\ fins' = fins + 1
  /\ mu' = mu \ {RecvTask}
  /\ \E e \in {Nil, ErrSend} : rerr' = e /\ Fault(e)
  /\ closed' = DeferredClose
  /\ rpc' = "ret"
  /\ UNCHANGED <<rh, p, nrecv, finsRecv, walkVars, workVars, groupVars, stats, dataLog,
                 errs, sendpipeline, resolved>>

RecvReturn ==
  /\ rpc = "ret"
  /\ rpc' = "done"
  /\ Finish(RecvTask, rerr)
  /\ UNCHANGED <<rerr, rh, p, nrecv, finsRecv, walkVars, workVars, logVars,
                 sendpipeline, closed, mu, resolved, faults>>

\* ---- sender.run: the workers, sender.sendFile, fileSender.Write ----
Min(a, b) == IF a < b THEN a ELSE b

\* a range that ends as soon as the channel is closed, jobs left or not
RangeEndsWhenClosed(q, isClosed) == isClosed

\* range over a channel ends when the channel is closed and drained
RangeEnds(q, isClosed) == Len(q) = 0 /\ isClosed

\* a receive that leaves the job in the channel
QueueRestKeepsHead(q) == q

\* the channel after a receive took its first job
QueueRest(q) == Tail(q)

\* for h := range s.sendpipeline: take a job, or leave when the channel is closed
\* and drained
WorkerDequeue(w) ==
  /\ kpc[w] = "range"
  /\ IF RangeEnds(sendpipeline, closed)
       THEN /\ kpc' = [kpc EXCEPT ![w] = "ret"]
            /\ UNCHANGED <<kh, sendpipeline>>
       ELSE /\ Len(sendpipeline) > 0
            /\ kh' = [kh EXCEPT ![w] = Head(sendpipeline)]
            /\ sendpipeline' = QueueRest(sendpipeline)
            /\ kpc' = [kpc EXCEPT ![w] = "check"]
  /\ UNCHANGED <<kerr, kpos, kchunk, ker, opened, body, walkVars, recvVars, groupVars,
                 logVars, closed, mu, resolved, faults>>

\* the select on ctx.Done() before sendFile, then s.fs.Open(h.path)
WorkerCheck(w) ==
  /\ kpc[w] = "check"
  /\ IF ctxDone
       THEN /\ kerr' = [kerr EXCEPT ![w] = ErrCanceled]
            /\ kpc' = [kpc EXCEPT ![w] = "ret"]
            /\ UNCHANGED <<opened, body, kpos>>
       ELSE \/ /\ opened' = [opened EXCEPT ![kh[w].id] = "fail"]
               /\ kerr' = [kerr EXCEPT ![w] = ErrOpen]
               /\ kpc' = [kpc EXCEPT ![w] = "final"]
               /\ UNCHANGED <<body, kpos>>
            \/ \E c \in FileContents :
                 /\ opened' = [opened EXCEPT ![kh[w].id] = "ok"]
                 /\ body' = [body EXCEPT ![kh[w].id] = c]
                 /\ kpos' = [kpos EXCEPT ![w] = 0]
                 /\ kpc' = [kpc EXCEPT ![w] = "read"]
                 /\ UNCHANGED kerr
  /\ UNCHANGED <<kh, kchunk, ker, walkVars, recvVars, groupVars, logVars,
                 sendpipeline, closed, mu, resolved, faults>>

\* a copy that treats every read error as the end of the file
CopyNextSwallowsReadErr(ew, er) ==
  IF ew # Nil THEN [pc |-> "ret", err |-> ew]
  ELSE IF er = Nil THEN [pc |-> "read", err |-> Nil]
  ELSE [pc |-> "final", err |-> Nil]

\* io.CopyBuffer after a Read that gave er and a Write (if any) that gave ew:
\* where the copy goes next and what sendFile returns
CopyNext(ew, er) ==
  IF ew # Nil THEN [pc |-> "ret", err |-> ew]
  ELSE IF er = Nil THEN [pc |-> "read", err |-> Nil]
  ELSE IF er = EOF THEN [pc |-> "final", err |-> Nil]
  ELSE [pc |-> "ret", err |-> er]

\* a copy that sends the head of the file again for every chunk
ChunkFromStart(b, pos, nr) == SubSeq(b, 1, nr)

\* buf[0:nr] after a Read at offset pos of a file with body b
Chunk(b, pos, nr) == SubSeq(b, pos + 1, pos + nr)

\* fileSender.Write sends a packet unless len(dt) == 0
WriteSends(dt) == Len(dt) # 0

\* one src.Read(buf) of io.CopyBuffer: nr bytes and er; a Read of (0, nil) changes
\* nothing and is left out
WorkerRead(w) ==
  /\ kpc[w] = "read"
  /\ LET id == kh[w].id
         rem == Len(body[id]) - kpos[w]
     IN \E nr \in 0..Min(rem, MaxChunk), er \in {Nil, EOF, ErrRead} :
          /\ er = EOF => nr = rem
          /\ ~(nr = 0 /\ er = Nil)
          /\ Fault(IF er = ErrRead THEN er ELSE Nil)
          /\ kpos' = [kpos EXCEPT ![w] = @ + nr]
          /\ ker' = [ker EXCEPT ![w] = er]
          /\ IF nr > 0 /\ WriteSends(Chunk(body[id], kpos[w], nr))
               THEN /\ kchunk' = [kchunk EXCEPT ![w] = Chunk(body[id], kpos[w], nr)]
                    /\ kpc' = [kpc EXCEPT ![w] = "write"]
                    /\ UNCHANGED kerr
               ELSE /\ kpc' = [kpc EXCEPT ![w] = CopyNext(Nil, er).pc]
                    /\ kerr' = [kerr EXCEPT ![w] = CopyNext(Nil, er).err]
                    /\ UNCHANGED kchunk
  /\ UNCHANGED <<kh, opened, body, walkVars, recvVars, groupVars, logVars, sendpipeline,
                 closed, mu, resolved>>

\* the packet fileSender.Write sends for dt
DataPacket(id, dt) == Packet("DATA", id, dt, NoStat)

\* fileSender.Write(dt) inside SendMsg, then the rest of the CopyBuffer iteration
WorkerWrite(w) ==
  /\ kpc[w] = "write" /\ w \in mu
  /\ dataLog' = [dataLog EXCEPT ![kh[w].id] = Append(@, DataPacket(kh[w].id, kchunk[w]).data)]
  /\ mu' = mu \ {w}
  /\ \E ew \in {Nil, ErrSend} :
       /\ Fault(ew)
       /\ kpc' = [kpc EXCEPT ![w] = CopyNext(ew, ker[w]).pc]
       /\ kerr' = [kerr EXCEPT ![w] = CopyNext(ew, ker[w]).err]
  /\ UNCHANGED <<kh, kpos, kchunk, ker, opened, body, walkVars, recvVars, groupVars,
                 stats, fins, errs, sendpipeline, closed, resolved>>

\* a completion packet that leaves the ID field unset
FinalPacketNoId(id) == Packet("DATA", 0, <<>>, NoStat)

\* the packet that ends sendFile: DATA with the id and no payload
FinalPacket(id) == Packet("DATA", id, <<>>, NoStat)

\* a sendFile that returns the error of Open when the last send succeeds
SendFileResultKeepsOpenErr(openErr, sendErr) ==
  IF sendErr # Nil THEN sendErr ELSE openErr

\* what sendFile returns at its last line: the result of SendMsg, whatever Open
\* returned
SendFileResult(openErr, sendErr) == sendErr

\* return s.conn.SendMsg(&types.Packet{ID: h.id, Type: PACKET_DATA})
WorkerFinal(w) ==
  /\ kpc[w] = "final" /\ w \in mu
  /\ dataLog' = [dataLog EXCEPT ![FinalPacket(kh[w].id).id] = Append(@, FinalPacket(kh[w].id).data)]
  /\ mu' = mu \ {w}
  /\ \E e \in {Nil, ErrSend} :
       /\ Fault(e)
       /\ LET r == SendFileResult(kerr[w], e)
          IN /\ kerr' = [kerr EXCEPT ![w] = r]
             /\ kpc' = [kpc EXCEPT ![w] = IF r = Nil THEN "range" ELSE "ret"]
             \* h, buf and f go out of scope when sendFile returns
             /\ kh' = [kh EXCEPT ![w] = IF r = Nil THEN NoHandle ELSE @]
  /\ kpos' = [kpos EXCEPT ![w] = 0]
  /\ kchunk' = [kchunk EXCEPT ![w] = <<>>]
  /\ ker' = [ker EXCEPT ![w] = Nil]
  /\ UNCHANGED <<opened, body, walkVars, recvVars, groupVars,
                 stats, fins, errs, sendpipeline, closed, resolved>>

WorkerReturn(w) ==
  /\ kpc[w] = "ret"
  /\ kpc' = [kpc EXCEPT ![w] = "done"]
  /\ Finish(w, kerr[w])
  /\ UNCHANGED <<kerr, kh, kpos, kchunk, ker, opened, body, walkVars, recvVars, logVars,
                 sendpipeline, closed, mu, resolved, faults>>

\* ---- the specification ----
Next ==
  \/ WalkVisit \/ WalkFail \/ WalkEnd \/ WalkSendStat \/ WalkSendLast
  \/ WalkSendErr \/ WalkReturn
  \/ RecvCheck \/ RecvFail \/ RecvPacket \/ RecvEnqueue \/ RecvSendFin \/ RecvReturn
  \/ \E w \in Workers :
       \/ WorkerDequeue(w) \/ WorkerCheck(w) \/ WorkerRead(w)
       \/ WorkerWrite(w) \/ WorkerFinal(w) \/ WorkerReturn(w)
  \/ \E t \in Tasks : Lock(t)
  \/ Wait
  \/ CancelParent

Spec == Init /\ [][Next]_vars

\* ---- helpers of the properties ----
RECURSIVE Concat(_)
Concat(chunks) == IF chunks = <<>> THEN <<>> ELSE Head(chunks) \o Concat(Tail(chunks))

Front(q) == SubSeq(q, 1, Len(q) - 1)
Last(q) == q[Len(q)]

WalkOk == wpc \in {"ret", "done"} /\ werr = Nil

\* C1: when the walk has completed without error, the STAT packets handed to the
\* transport are one per walked entry, in walk order, each carrying that entry's
\* metadata, followed by exactly one STAT without metadata; in any state, a STAT
\* without metadata can only be the last STAT sent.
C1_StatsThenEmpty ==
  /\ \A k \in 1..(Len(stats) - 1) : stats[k].stat.present
  /\ WalkOk =>
       /\ Len(stats) = Len(visited) + 1
       /\ \A k \in 1..Len(visited) :
            stats[k].type = "STAT" /\ stats[k].stat = visited[k]
       /\ Last(stats).type = "STAT" /\ ~Last(stats).stat.present

C1_Witness ==
  /\ wpc = "done" /\ werr = Nil
  /\ Len(visited) = 2 /\ visited[1].regular /\ ~visited[2].regular
  /\ Len(stats) = 3

\* C2: the DATA packets of one identifier are non-empty chunks followed by at most
\* one empty DATA, nothing follows the empty DATA, and an identifier that no REQ
\* resolved has no DATA at all.
C2_DataShape ==
  \A id \in Ids :
    /\ \A k \in 1..(Len(dataLog[id]) - 1) : dataLog[id][k] # <<>>
    /\ dataLog[id] # <<>> => resolved[id] >= 1

C2_Witness ==
  \E id \in Ids : Len(dataLog[id]) = 3 /\ Last(dataLog[id]) = <<>>

\* C3: for a file that was opened and whose copy ended with the completion DATA,
\* the payloads of the non-empty DATA packets of its identifier, concatenated in
\* the order sent, are the file's content, however the reads split it.
C3_RoundTrip ==
  \A id \in Ids :
    (opened[id] = "ok" /\ dataLog[id] # <<>> /\ Last(dataLog[id]) = <<>>)
      => Concat(Front(dataLog[id])) = body[id]

C3_Witness ==
  \E id \in Ids :
    /\ opened[id] = "ok" /\ Len(body[id]) = MaxFileLen
    /\ Len(dataLog[id]) = MaxFileLen + 1 /\ Last(dataLog[id]) = <<>>
    /\ \E id2 \in Ids : opened[id2] = "ok" /\ body[id2] = <<>> /\ dataLog[id2] = << <<>> >>

\* the receive loop takes a REQ for id from RecvMsg in this step
ReqStep(id) == rpc = "recv" /\ nrecv' = nrecv + 1 /\ p'.type = "REQ" /\ p'.id = id

\* C4: an identifier is resolved into a job by at most one REQ and is out of the
\* table from then on; a REQ for an identifier that is not in the table (resolved
\* before, never assigned, or assigned to a non-regular entry) gives the
\* invalid-id error, enqueues nothing and ends the receive loop.
C4_OneReqPerId ==
  /\ [](\A id \in ReqIds :
          /\ resolved[id] <= 1
          /\ resolved[id] >= 1 => id \notin DOMAIN files)
  /\ [][\A id \in ReqIds :
          (ReqStep(id) /\ id \notin DOMAIN files)
            => /\ rerr' = ErrInvalidId
               /\ rpc' = "ret" /\ closed'
               /\ rh' = rh /\ sendpipeline' = sendpipeline
               /\ resolved' = resolved]_vars

C4_Witness ==
  /\ p.type = "REQ" /\ p.id \in Ids /\ resolved[p.id] = 1
  /\ rerr = ErrInvalidId /\ rpc = "done"
  /\ dataLog[p.id] # <<>>

WorkersOk == \A w \in Workers : ret[w] = Nil

\* C5 as stated: FIN is sent only after a FIN was received and at most once, never
\* after a receive failure or a received ERR, and once a FIN was received run()
\* returns nil whenever the walk and every worker returned nil.
C5_Original ==
  /\ fins <= finsRecv /\ fins <= 1
  /\ rerr \in {ErrRecv, ErrRemote} => fins = 0
  /\ (finsRecv >= 1 /\ ret[WalkTask] = Nil /\ WorkersOk /\ runRet # Running)
       => runRet = Nil

\* C5, amended: FIN is sent only after a FIN was received and at most once, never
\* after a receive failure or a received ERR; after a FIN was received the loop
\* takes no further packet; run() returns nil when the FIN reply was sent without
\* error and the walk and every worker returned nil.
C5_FinOnlyAsReply ==
  /\ [](/\ fins <= finsRecv /\ fins <= 1
        /\ rerr \in {ErrRecv, ErrRemote} => fins = 0
        /\ (fins = 1 /\ rerr = Nil /\ ret[WalkTask] = Nil /\ WorkersOk
              /\ runRet # Running) => runRet = Nil)
  /\ [][finsRecv >= 1 => nrecv' = nrecv]_vars

C5_Witness ==
  /\ fins = 1 /\ finsRecv = 1 /\ runRet = Nil
  /\ \E id \in Ids : dataLog[id] # <<>>

\* the steps the sender can take by itself: every step but a packet or a failure
\* coming from RecvMsg and a cancellation from outside
SenderNext ==
  \/ WalkVisit \/ WalkFail \/ WalkEnd \/ WalkSendStat \/ WalkSendLast
  \/ WalkSendErr \/ WalkReturn
  \/ RecvCheck \/ RecvEnqueue \/ RecvSendFin \/ RecvReturn
  \/ \E w \in Workers :
       \/ WorkerDequeue(w) \/ WorkerCheck(w) \/ WorkerRead(w)
       \/ WorkerWrite(w) \/ WorkerFinal(w) \/ WorkerReturn(w)
  \/ \E t \in Tasks : Lock(t)
  \/ Wait

\* C6 as stated: once a task has failed, run() gets to return without anything
\* more from the peer; so as long as run() has not returned, some task of the
\* sender can take a step.
C6_Original ==
  (firstFail # Nil /\ runRet = Running) => ENABLED SenderNext

LocalFatal ==
  {ErrWalk, ErrInfo, ErrBadMsg, ErrSendStat, ErrSendLast, ErrInvalidId, ErrSend, ErrRead}

C8_OpenFailureSwallowed ==
  /\ [](/\ \A id \in Ids : opened[id] = "fail" => dataLog[id] \in {<<>>, << <<>> >>}
        /\ runRet # ErrOpen
        /\ \A t \in Tasks : ret[t] # ErrOpen
        /\ \A k \in 1..Len(errs) : errs[k] # ErrOpen)
  /\ [][\A w \in Workers :
          (kpc[w] = "final" /\ kpc'[w] # "final" /\ opened[kh[w].id] = "fail")
            => /\ dataLog'[kh[w].id] = << <<>> >>
               /\ faults' = faults => (kpc'[w] = "range" /\ kerr'[w] = Nil)]_vars

C8_Witness ==
  /\ firstFail = Nil /\ errs = <<>>
  /\ \E id \in Ids : opened[id] = "fail" /\ dataLog[id] = << <<>> >>
  /\ \E id \in Ids : opened[id] = "ok" /\ Len(dataLog[id]) >= 2
  /\ \A w \in Workers : kpc[w] = "range"

C10_FirstErrorWins ==
  /\ gerr = firstFail
  /\ runRet # Running =>
       /\ runRet = firstFail
       /\ runRet = Nil <=> \A t \in Tasks : ret[t] = Nil

C10_Witness ==
  /\ runRet = ErrInvalidId
  /\ ret[WalkTask] \in {ErrWalk, ErrInfo, ErrBadMsg}
  /\ \E w \in Workers : ret[w] = ErrCanceled

\* a worker is inside sendFile
InSendFile(w) == kpc[w] \in {"read", "write", "final"}

\* C11 as stated: once the context is cancelled, a worker copying a file of more
\* than one chunk issues no send beyond the one already under way (from its next
\* read it goes to no further Write and to no completion DATA) and starts no new
\* job.
C11_Original ==
  [][ctxDone =>
       \A w \in Workers :
         /\ (kpc[w] = "read" /\ Len(body[kh[w].id]) > 1)
              => kpc'[w] \notin {"write", "final"}
         /\ ~(kpc[w] = "check" /\ InSendFile(w)')]_vars

\* C12: identifiers count the walked entries from 0, non-regular ones included;
\* every key k of the table is below the number of entries visited and maps to the
\* path of entry k, which is a regular file; a key that a REQ removed is not put
\* into the table again.
C12_TableIds ==
  /\ [](/\ i = Len(visited)
        /\ \A k \in DOMAIN files :
             /\ k < Len(visited)
             /\ files[k] = visited[k + 1].path
             /\ visited[k + 1].regular)
  /\ [][/\ i' \in {i, i + 1}
        /\ \A k \in ReqIds : resolved[k] >= 1 => k \notin DOMAIN files']_vars

C12_Witness ==
  /\ Len(visited) = 2 /\ ~visited[1].regular /\ visited[2].regular
  /\ resolved[1] = 1 /\ DOMAIN files = {}
  /\ wpc = "done"

SendStep ==
  stats' # stats \/ errs' # errs \/ fins' # fins \/ dataLog' # dataLog

\* C14: at most one task at a time is inside the transport's send; every packet
\* (STAT, end STAT, DATA, completion DATA, FIN reply, ERR) is handed over by a
\* task that holds the mutex, and the task releases it with that send, whether
\* the send fails or not; a task holds the mutex only while it is in a send.
C14_MutexSend ==
  /\ [](/\ Cardinality(mu) <= 1
        /\ \A t \in mu : WantsSend(t))
  /\ [][/\ (stats' # stats \/ errs' # errs)
             => (WalkTask \in mu /\ mu' = mu \ {WalkTask})
        /\ fins' # fins => (RecvTask \in mu /\ mu' = mu \ {RecvTask})
        /\ dataLog' # dataLog
             => \E w \in Workers :
                  w \in mu /\ mu' = mu \ {w} /\ kpc[w] \in {"write", "final"}
        /\ \A t \in mu : t \notin mu' => SendStep]_vars

C14_Witness ==
  /\ werr = ErrSendStat /\ wpc = "err" /\ mu = {WalkTask}
  /\ \E w \in Workers : kpc[w] = "write"
  /\ rpc = "fin"

\* a worker holds a job: between the dequeue and the end of sendFile
Active(w) == kpc[w] \in {"check", "read", "write", "final"}

\* C15: a job is dequeued by at most one worker: two workers never hold the same
\* identifier and a job a worker holds is no longer in the queue; DATA for an
\* identifier is sent by the one worker that holds it, and when a worker takes a
\* job nothing was sent for its identifier before; when run() returns nil the
\* queue is empty and every job enqueued was taken by a worker that ran sendFile.
C15_OneWorkerPerJob ==
  /\ [](/\ \A w1, w2 \in Workers :
             (w1 # w2 /\ Active(w1) /\ Active(w2)) => kh[w1].id # kh[w2].id
        /\ \A w \in Workers :
             Active(w) =>
               \A k \in 1..Len(sendpipeline) : sendpipeline[k].id # kh[w].id
        /\ runRet = Nil =>
             /\ sendpipeline = <<>> /\ rpc = "done"
             /\ \A id \in Ids : resolved[id] = 1 => opened[id] # "no")
  /\ [][/\ \A id \in Ids :
             dataLog'[id] # dataLog[id]
               => \E w \in Workers :
                    /\ InSendFile(w) /\ kh[w].id = id /\ w \in mu
                    /\ \A w2 \in Workers \ {w} : ~(Active(w2) /\ kh[w2].id = id)
        /\ \A w \in Workers :
             (kpc[w] = "range" /\ kpc'[w] = "check")
               => /\ dataLog[kh'[w].id] = <<>>
                  /\ opened[kh'[w].id] = "no"
                  /\ resolved[kh'[w].id] = 1]_vars

C15_Witness ==
  /\ \A w \in Workers : kpc[w] = "write"
  /\ \A w1, w2 \in Workers : w1 # w2 => kh[w1].id # kh[w2].id
  /\ \A id \in Ids : dataLog[id] # <<>>

\* identifiers a REQ took out of the table for which no sendFile has begun
Unstarted == {id \in Ids : resolved[id] >= 1 /\ opened[id] = "no"}

\* C16 as stated: the accepted jobs for which no sendFile has begun are never
\* more than the queue holds.
C16_Original ==
  /\ Cardinality(Unstarted) <= QueueCap
  /\ Cardinality({w \in Workers : InSendFile(w)}) <= NumWorkers

\* C16, amended: the queue never holds more jobs than its capacity; an accepted
\* job for which no sendFile has begun is in the queue, or in the hand of the
\* receive loop waiting to enqueue it, or with a worker that has dequeued it and
\* not yet passed (or has left at) the cancellation check, so there are at most
\* capacity + 1 + pool size of them; the sendFile calls in progress are at most
\* the pool size; with the queue full the receive loop stays at the enqueue
\* with its job, nothing is dropped and no error is set.
C16_QueueBounds ==
  /\ [](/\ Len(sendpipeline) <= QueueCap
        /\ Cardinality(Unstarted) <= QueueCap + 1 + NumWorkers
        /\ \A id \in Unstarted :
             \/ \E k \in 1..Len(sendpipeline) : sendpipeline[k].id = id
             \/ rpc = "enqueue" /\ rh.id = id
             \/ \E w \in Workers :
                  /\ kh[w].id = id
                  /\ kpc[w] = "check" \/ kerr[w] = ErrCanceled
        /\ Cardinality({w \in Workers : InSendFile(w)}) <= NumWorkers)
  /\ [][(rpc = "enqueue" /\ Len(sendpipeline) = QueueCap)
          => /\ rpc' = "enqueue" /\ rh' = rh /\ rerr' = rerr
             /\ resolved' = resolved
             /\ sendpipeline' \in {sendpipeline, Tail(sendpipeline)}]_vars

C16_Witness ==
  /\ rpc = "enqueue" /\ Len(sendpipeline) = QueueCap
  /\ Cardinality(Unstarted) = QueueCap + 1
  /\ \A w \in Workers : kpc[w] = "range"

\* the failures of the walk at an entry
EntryFailures == {ErrWalk, ErrInfo, ErrBadMsg, ErrSendStat}

\* C17: when the walk fails, the walk task hands one ERR packet with the failure
\* text to the transport before its error reaches run(), and no STAT is sent
\* from the failure on; after a failure at an entry the STAT packets sent are
\* those of the entries before it (and the one whose send failed), none for the
\* failing entry and no STAT without metadata.
C17_ErrThenNoStat ==
  /\ [](/\ werr \in EntryFailures =>
             /\ wpc \in {"err", "ret", "done"}
             /\ Len(stats) = Len(visited)
             /\ \A k \in 1..Len(stats) : stats[k].stat.present
        /\ (werr # Nil /\ wpc = "err") => (errs = <<>> /\ ret[WalkTask] = Running)
        /\ (werr # Nil /\ wpc \in {"ret", "done"}) => errs = <<werr>>)
  /\ [][werr # Nil => stats' = stats]_vars

C17_Witness ==
  /\ werr = ErrBadMsg /\ wpc = "ret" /\ ret[WalkTask] = Running
  /\ errs = <<ErrBadMsg>>
  /\ Len(stats) = 1 /\ stats[1].stat.present

\* C18: a regular entry's identifier is in the table before its STAT is sent:
\* when the STAT is about to be sent and for every STAT sent, the identifier of a
\* regular entry is in the table or a REQ has consumed it; the first REQ for an
\* identifier whose STAT was sent is accepted, never answered with the
\* invalid-id error.
C18_AnnouncedIdKnown ==
  /\ [](/\ \A k \in 1..Len(stats) :
             (stats[k].stat.present /\ stats[k].stat.regular)
               => ((k - 1) \in DOMAIN files \/ resolved[k - 1] >= 1)
        /\ (wpc = "stat" /\ wpkt.stat.regular)
             => ((i - 1) \in DOMAIN files \/ resolved[i - 1] >= 1))
  /\ [][\A id \in Ids :
          (/\ ReqStep(id)
           /\ Len(stats) > id /\ stats[id + 1].stat.regular
           /\ resolved[id] = 0)
            => /\ rerr' = Nil /\ rpc' = "enqueue"
               /\ rh'.id = id /\ rh'.path = stats[id + 1].stat.path
               /\ resolved'[id] = 1]_vars

C18_Witness ==
  /\ Len(stats) = 2 /\ Len(visited) = 2 /\ wpc = "walk"
  /\ rpc = "enqueue" /\ rh.id = 1 /\ rerr = Nil
  /\ resolved[0] = 0 /\ 0 \in DOMAIN files

\* no task has failed and the context is not cancelled
NoFailure ==
  /\ firstFail = Nil /\ ~ctxDone
  /\ werr = Nil /\ rerr = Nil
  /\ \A w \in Workers : kpc[w] \in {"ret", "done"} => kerr[w] = Nil

\* C19: receiving FIN and replying to it do not cancel the context, and the
\* receive loop's nil return does not either; as long as no task has failed and
\* the context is not cancelled, a job accepted before FIN is in the queue, with
\* a worker, or transferred; run() returns nil only after the walk and every
\* worker have returned and every accepted job has its completion DATA (and,
\* for a file that opened, its whole content) sent.
C19_FinDoesNotCancel ==
  /\ [](/\ (fins = 1 /\ NoFailure) =>
             \A id \in Ids :
               resolved[id] = 1 =>
                 \/ \E k \in 1..Len(sendpipeline) : sendpipeline[k].id = id
                 \/ \E w \in Workers : Active(w) /\ kh[w].id = id
                 \/ (dataLog[id] # <<>> /\ Last(dataLog[id]) = <<>>)
        /\ runRet = Nil =>
             /\ fins = 1 /\ wpc = "done"
             /\ \A w \in Workers : kpc[w] = "done"
             /\ \A id \in Ids :
                  resolved[id] = 1 =>
                    /\ dataLog[id] # <<>> /\ Last(dataLog[id]) = <<>>
                    /\ opened[id] = "ok" => Concat(Front(dataLog[id])) = body[id])
  /\ [][/\ (finsRecv' # finsRecv \/ (fins' # fins /\ faults' = faults))
             => (ctxDone' = ctxDone /\ gerr' = gerr)
        /\ (ret[RecvTask] = Running /\ ret'[RecvTask] = Nil)
             => ctxDone' = ctxDone]_vars

C19_Witness ==
  /\ fins = 1 /\ rpc = "done" /\ ret[RecvTask] = Nil
  /\ NoFailure
  /\ wpc = "stat" /\ WantsSend(WalkTask)
  /\ \E w \in Workers : kpc[w] = "write" /\ w \in mu /\ dataLog[kh[w].id] = <<>>

\* C20 as stated: after the close, a worker that reads the queue terminates with
\* that read, unless the session is failing or cancelled and the worker is given
\* a job that the cancellation check makes it drop.
C20_Original ==
  [][\A w \in Workers :
       (closed /\ kpc[w] = "range" /\ kpc'[w] # "range")
         => (kpc'[w] = "ret" \/ ctxDone \/ rerr # Nil)]_vars

\* C20, amended: the queue is closed exactly when the receive loop has left its
\* loop (FIN, a receive-loop error, or cancellation observed), by that step and
\* by no other; it is never reopened and no job is enqueued after the close; a
\* worker that reads the closed queue is handed the first job still in it, and
\* terminates with a nil error once it reads the queue empty, which it always can.
C20_CloseOnce ==
  /\ [](/\ closed <=> rpc \in {"ret", "done"}
        /\ (closed /\ sendpipeline = <<>>) =>
             \A w \in Workers : kpc[w] = "range" => ENABLED WorkerDequeue(w))
  /\ [][/\ closed' # closed => (~closed /\ rpc \notin {"ret", "done"} /\ rpc' = "ret")
        /\ closed => Len(sendpipeline') <= Len(sendpipeline)
        /\ \A w \in Workers :
             (closed /\ kpc[w] = "range" /\ kpc'[w] # "range")
               => IF sendpipeline = <<>>
                    THEN kpc'[w] = "ret" /\ kerr'[w] = Nil
                    ELSE kpc'[w] = "check" /\ kh'[w] = Head(sendpipeline)]_vars

C20_Witness ==
  /\ closed /\ fins = 1 /\ ~ctxDone /\ sendpipeline = <<>>
  /\ \E w \in Workers : kpc[w] = "ret" /\ kerr[w] = Nil
  /\ \E w \in Workers : InSendFile(w)
====
